---- MODULE Spec2Model ----
(***************************************************************************)
(* Model of personalai-agent/agent.py: the HomeAgent reconnection          *)
(* supervisor (start/stop/_cleanup), the connection session (_connect),    *)
(* the heartbeat task (_ping_loop), the dispatch loop (_message_loop,      *)
(* _handle_message) and command execution (_execute_ha_command).           *)
(*                                                                         *)
(* The asyncio program is one supervisor task (position pc), one heartbeat *)
(* task per session (ping_task), and an environment made of the remote     *)
(* peer (frames, handshake replies, closes), the local automation API      *)
(* (HTTP outcomes) and whoever requests a stop.  A step of the model is    *)
(* the code that runs between two suspension points (awaits).              *)
(*                                                                         *)
(* Spec is the whole agent.  SpecExec applies _execute_ha_command to every *)
(* shape of command, one command per behaviour.                            *)
(***************************************************************************)
EXTENDS Naturals, Sequences, FiniteSets, TLC

(* ------------------------------ bounds --------------------------------- *)
\* connection attempts, inbound frames over all sessions, pings over all sessions
MaxConn == 2
MaxFrames == 2
MaxPings == 1

Handles == 1..MaxConn
NoHandle == 0

(* ------------------------- program constants --------------------------- *)
\* agent.py:30-35; "light" stands for the eighteen listed domains
SAFE_DOMAINS == {"light"}

\* domains a call_service command can carry: one listed, one not listed,
\* none at all (command.get("domain") is None), and an unhashable JSON value
\* (a list or an object), for which `domain not in SAFE_DOMAINS` raises TypeError
Domains == {"light", "camera", "absent", "unhashable"}

RequestIds == {"r1", "r2"}

Cmd(k, a, d, x) == [kind |-> k, action |-> a, domain |-> d, data |-> x]

NoCmd == Cmd("none", "none", "absent", "absent")

\* values of data.get("command", {}) (line 180): JSON objects, with every
\* action (one that is none of the three known stands for the rest, "absent"
\* for a missing key), domain and data, and a value that is not an object
\* (a string, a list, a number, null)
Commands ==
    {Cmd("mapping", a, d, x) :
        a \in {"get_entities", "get_state", "call_service", "other", "absent"},
        d \in Domains, x \in {"absent", "ok", "bad"}}
    \cup {Cmd("notmapping", "none", "absent", "absent")}

\* the commands the dispatch loop of Spec receives: the loop depends on a
\* command only through what _execute_ha_command does with it before its
\* first suspension, so one command of each kind: a request to the local API,
\* a result without a request, an exception
LoopCommands ==
    {Cmd("mapping", "get_state", "absent", "absent"),
     Cmd("mapping", "call_service", "camera", "absent"),
     Cmd("notmapping", "none", "absent", "absent")}

\* outcomes of one HTTP request to the local automation API
ApiOutcomes == {"200", "non200", "exception"}

NoResult == [success |-> FALSE, payload |-> "none"]
Err == [success |-> FALSE, payload |-> "error"]

VARIABLES
    pc,            \* position of the supervisor task (start and what it awaits)
    _running,      \* HomeAgent._running
    _connected,    \* HomeAgent._connected
    _ws,           \* HomeAgent._ws: a handle, or NoHandle for None
    _session,      \* HomeAgent._session: "none", "open", "closed"
    handle,        \* each websocket: "none", "open", "closed", "dropped"
    hsReply,       \* per handle, the outcome of its handshake
    ping_task,     \* per session, its heartbeat task: "none", "ready", "sleeping", "done"
    nframes,       \* frames received by the dispatch loop so far
    last,          \* the last frame the dispatch loop received on this connection
    cmds,          \* the ha_command envelopes received, in order, and their fate
    responses,     \* the ha_response frames handed to send_json, in order
    pings,         \* the ping frames sent: (handle, sending task)
    npings,        \* how many pings were sent
    cur,           \* index in cmds of the command being executed, or 0
    stopRequested, \* stop() has been called
    attempts,      \* connection attempts begun
    ends,          \* times _connect has returned to start
    delays,        \* reconnect delays completed
    exec           \* SpecExec: one call of _execute_ha_command

sup == <<attempts, ends, delays>>
conn == <<_ws, handle, hsReply>>
beat == <<ping_task, pings, npings>>
disp == <<nframes, last, cmds, responses, cur>>

vars == <<pc, _running, _connected, _session, stopRequested, sup, conn, beat, disp, exec>>

NoExec == [cmd |-> NoCmd, step |-> "idle", result |-> NoResult, calls |-> 0]

Init ==
    /\ pc = "init"
    /\ _running = FALSE
    /\ _connected = FALSE
    /\ _ws = NoHandle
    /\ _session = "none"
    /\ handle = [h \in Handles |-> "none"]
    /\ hsReply = [h \in Handles |-> "none"]
    /\ ping_task = [h \in Handles |-> "none"]
    /\ nframes = 0
    /\ last = [h |-> NoHandle, kind |-> "none"]
    /\ cmds = <<>>
    /\ responses = <<>>
    /\ pings = {}
    /\ npings = 0
    /\ cur = 0
    /\ stopRequested = FALSE
    /\ attempts = 0
    /\ ends = 0
    /\ delays = 0
    /\ exec = NoExec

(* ------------------------- command execution --------------------------- *)
\* `domain not in SAFE_DOMAINS` (line 203), as the capability policy
DomainCheckAllowAll(domain) ==
    IF domain = "unhashable" THEN "raise" ELSE "allowed"

DomainCheck(domain) ==
    IF domain = "unhashable" THEN "raise"
    ELSE IF domain \notin SAFE_DOMAINS THEN "denied"
    ELSE "allowed"

Plan(s, r, e) == [step |-> s, result |-> r, endpoint |-> e]

\* _call_service up to its HTTP request (lines 256-268): service_data.update(data)
\* raises for a data value that is not a mapping, and the function's own except
\* (line 273) returns the error without a request
CallServicePlan(command) ==
    IF command.data = "bad"
    THEN Plan("return", Err, "none")
    ELSE Plan("api", NoResult, "POST services")

\* _execute_ha_command up to its first suspension: it raises (line 192 is
\* outside the try), returns a result without any request, or issues one
\* request to the local API and waits for it
ExecutePlan(command) ==
    IF command.kind # "mapping" THEN Plan("raise", NoResult, "none")
    ELSE IF command.action = "get_entities" THEN Plan("api", NoResult, "GET states")
    ELSE IF command.action = "get_state" THEN Plan("api", NoResult, "GET state")
    ELSE IF command.action = "call_service"
    THEN IF DomainCheck(command.domain) = "allowed"
         THEN CallServicePlan(command)
         ELSE Plan("return", Err, "none")
    ELSE Plan("return", Err, "none")

\* the result _get_all_entities, _get_entity_state or _call_service builds from
\* the local API's answer (lines 223-241, 249-253, 270-274)
ApiResult(command, outcome) ==
    IF outcome # "200" THEN Err
    ELSE IF command.action = "get_entities" THEN [success |-> TRUE, payload |-> "entities"]
    ELSE IF command.action = "get_state" THEN [success |-> TRUE, payload |-> "state"]
    ELSE [success |-> TRUE, payload |-> "message"]

(* ----------------------------- helpers --------------------------------- *)
\* whether a send_json on handle h can succeed: never on a closed websocket;
\* on an open one the transport may have been severed
SendOutcomes(h) == IF handle[h] = "open" THEN {TRUE, FALSE} ELSE {FALSE}

\* ping_task.cancel() (line 144): CancelledError is raised in the task at the
\* await it is suspended in (or before its first step), the bare except of
\* line 159 catches it and the loop breaks: the task is over
CancelPingNoop(pt, h) == pt

CancelPing(pt, h) ==
    [pt EXCEPT ![h] = IF @ \in {"ready", "sleeping"} THEN "done" ELSE @]

\* `while self._running:` at the top of the loop (line 73): the next position
LoopTopIgnoresStop(running) == "connecting"

LoopTop(running) == IF running THEN "connecting" ELSE "cleanup"

\* after _connect returned or raised (lines 76-81, then 73)
AfterConnectGiveUp(running) == "cleanup"

AfterConnectNoDelay(running) == LoopTop(running)

AfterConnect(running) == IF running THEN "delay" ELSE LoopTop(running)

\* the supervisor moves to position p; an attempt begins when p is "connecting"
Goto(p) ==
    /\ p = "connecting" => attempts < MaxConn
    /\ pc' = p
    /\ attempts' = IF p = "connecting" THEN attempts + 1 ELSE attempts

InSession == pc \in {"connecting", "hs_recv", "recv", "exec"}
InPhase == pc \in {"recv", "exec"}

\* _connect returns to start (normally, or through its except clauses at
\* lines 147-152, which swallow every Exception), and start goes on
Return ==
    /\ ends' = ends + 1
    /\ Goto(AfterConnect(_running))

(* --------------------------- the supervisor ---------------------------- *)
\* start, lines 59-67: up to the await of the startup probe
Start ==
    /\ pc = "init"
    /\ _running' = TRUE
    /\ _session' = "open"
    /\ pc' = "probe"
    /\ UNCHANGED <<_connected, stopRequested, sup, conn, beat, disp, exec>>

\* _test_ha_connection returned True: the loop begins (line 73)
ProbeOk ==
    /\ pc = "probe"
    /\ Goto(LoopTop(_running))
    /\ UNCHANGED <<_running, _connected, _session, stopRequested, ends, delays,
                   conn, beat, disp, exec>>

\* _test_ha_connection returned False (non-200 or exception): sleep 10 (line 70)
ProbeFail ==
    /\ pc = "probe"
    /\ pc' = "probe_sleep"
    /\ UNCHANGED <<_running, _connected, _session, stopRequested, sup, conn, beat,
                   disp, exec>>

ProbeSleepDone ==
    /\ pc = "probe_sleep"
    /\ Goto(LoopTop(_running))
    /\ UNCHANGED <<_running, _connected, _session, stopRequested, ends, delays,
                   conn, beat, disp, exec>>

\* asyncio.sleep(self.reconnect_delay) is over (line 81), back to line 73
DelayDone ==
    /\ pc = "delay"
    /\ delays' = delays + 1
    /\ Goto(LoopTop(_running))
    /\ UNCHANGED <<_running, _connected, _session, stopRequested, ends, conn, beat,
                   disp, exec>>

\* _cleanup (lines 90-92): the shared HTTP session is closed, and with it the
\* connector drops the transport of every websocket still open on it
Cleanup ==
    /\ pc = "cleanup"
    /\ _session' = "closed"
    /\ handle' = [h \in Handles |-> IF handle[h] = "open" THEN "dropped" ELSE handle[h]]
    /\ pc' = "done"
    /\ UNCHANGED <<_running, _connected, stopRequested, sup, _ws, hsReply, beat,
                   disp, exec>>

(* ------------------------- connect and handshake ----------------------- *)
\* ws_connect succeeded (line 118): the new websocket is assigned to _ws and
\* the handshake frame is sent (lines 125-129); then receive_json is awaited
ConnectOk ==
    /\ pc = "connecting"
    /\ handle' = [handle EXCEPT ![attempts] = "open"]
    /\ _ws' = attempts
    /\ last' = [h |-> NoHandle, kind |-> "none"]
    /\ pc' = "hs_recv"
    /\ UNCHANGED <<_running, _connected, _session, stopRequested, sup, hsReply,
                   beat, nframes, cmds, responses, cur, exec>>

\* ws_connect raised (WSServerHandshakeError or any other Exception): caught
\* at lines 147-152; _ws keeps whatever it held
ConnectFail ==
    /\ pc = "connecting"
    /\ Return
    /\ UNCHANGED <<_running, _connected, _session, stopRequested, delays, conn,
                   beat, disp, exec>>

\* line 132
IsWelcomeAny(type) == TRUE

IsWelcome(type) == type = "welcome"

\* receive_json returned a JSON object (line 131): welcome starts the
\* concurrent phase (lines 133-142), anything else returns (lines 136-137)
HsReply(type) ==
    /\ pc = "hs_recv"
    /\ handle[_ws] = "open"
    /\ hsReply' = [hsReply EXCEPT ![_ws] = type]
    /\ IF IsWelcome(type)
       THEN /\ _connected' = TRUE
            /\ ping_task' = [ping_task EXCEPT ![_ws] = "ready"]
            /\ pc' = "recv"
            /\ UNCHANGED <<attempts, ends>>
       ELSE /\ Return
            /\ UNCHANGED <<_connected, ping_task>>
    /\ UNCHANGED <<_running, _session, stopRequested, delays, _ws, handle, pings,
                   npings, disp, exec>>

\* receive_json raised on a reply that is not JSON, or msg.get raised on a
\* reply that is not an object: caught at line 151, the websocket stays open
HsMalformed ==
    /\ pc = "hs_recv"
    /\ handle[_ws] = "open"
    /\ hsReply' = [hsReply EXCEPT ![_ws] = "malformed"]
    /\ Return
    /\ UNCHANGED <<_running, _connected, _session, stopRequested, delays, _ws,
                   handle, beat, disp, exec>>

\* receive_json raised because the connection closed (the peer closed it, or
\* stop() did): the websocket is closed; caught at line 151
HsClosed ==
    /\ pc = "hs_recv"
    /\ handle[_ws] \in {"open", "closed"}
    /\ handle' = [handle EXCEPT ![_ws] = "closed"]
    /\ hsReply' = [hsReply EXCEPT ![_ws] = "closed"]
    /\ Return
    /\ UNCHANGED <<_running, _connected, _session, stopRequested, delays, _ws,
                   beat, disp, exec>>

(* --------------------------- the dispatch loop ------------------------- *)
\* the finally clause of the concurrent phase (lines 143-145)
Finally ==
    /\ ping_task' = CancelPing(ping_task, _ws)
    /\ _connected' = FALSE

\* the concurrent phase is left and _connect returns
PhaseExit == Finally /\ Return

StayInLoop == UNCHANGED <<pc, ping_task, _connected, attempts, ends>>

ReceiveWhileExecuting(kind) ==
    /\ pc \in {"recv", "exec"}
    /\ handle[_ws] = "open"
    /\ nframes < MaxFrames
    /\ nframes' = nframes + 1
    /\ last' = [h |-> _ws, kind |-> kind]

\* the inbound frame is taken from the websocket (line 163)
Receive(kind) ==
    /\ pc = "recv"
    /\ handle[_ws] = "open"
    /\ nframes < MaxFrames
    /\ nframes' = nframes + 1
    /\ last' = [h |-> _ws, kind |-> kind]

\* whether the frame received before this one, on the same connection, was a
\* text frame that is not JSON
Prev == last.h = _ws /\ last.kind = "malformed"

\* await self._ws.send_json(ha_response) for command i, whose result is res
\* (lines 185-189): the frame is handed to the websocket, and a failed send
\* raises out of the loop. cs is cmds with command i in it
SendResponse(cs, i, res) ==
    \E ok \in SendOutcomes(_ws) :
        /\ responses' = Append(responses,
                [h |-> _ws, rid |-> cs[i].rid, re |-> i, ok |-> ok])
        /\ IF ok
           THEN /\ cmds' = [cs EXCEPT ![i].st = "replied", ![i].result = res]
                /\ pc' = "recv"
                /\ UNCHANGED <<ping_task, _connected, attempts, ends>>
           ELSE /\ cmds' = [cs EXCEPT ![i].st = "sendfail", ![i].result = res]
                /\ PhaseExit

\* what the except clause of line 168 does with a JSONDecodeError
OnJSONDecodeErrorRaise == "raise"

OnJSONDecodeError == "pass"

\* a text frame that is not JSON (lines 164-169)
RecvMalformed ==
    /\ Receive("malformed")
    /\ IF OnJSONDecodeError = "pass" THEN StayInLoop ELSE PhaseExit
    /\ UNCHANGED <<_running, _session, stopRequested, delays, conn, pings, npings,
                   cmds, responses, cur, exec>>

\* a text frame whose JSON is not an object: data.get (line 174) raises
\* AttributeError, which leaves the loop and is caught at line 151
RecvNonDict ==
    /\ Receive("nondict")
    /\ PhaseExit
    /\ UNCHANGED <<_running, _session, stopRequested, delays, conn, pings, npings,
                   cmds, responses, cur, exec>>

RecvIgnoredAsError(kind) ==
    /\ Receive(kind)
    /\ PhaseExit
    /\ UNCHANGED <<_running, _session, stopRequested, delays, conn, pings, npings,
                   cmds, responses, cur, exec>>

\* a pong, a JSON object of another type (lines 174-178 match nothing), or a
\* frame that is neither TEXT nor ERROR/CLOSE/CLOSED (lines 164, 170): next frame
RecvIgnored(kind) ==
    /\ Receive(kind)
    /\ StayInLoop
    /\ UNCHANGED <<_running, _session, stopRequested, delays, conn, pings, npings,
                   cmds, responses, cur, exec>>

\* a close frame or an error: the websocket closes itself, the iteration ends
\* (line 163) or the loop breaks (lines 170-171)
RecvClose(kind) ==
    /\ Receive(kind)
    /\ handle' = [handle EXCEPT ![_ws] = "closed"]
    /\ PhaseExit
    /\ UNCHANGED <<_running, _session, stopRequested, delays, _ws, hsReply, pings,
                   npings, cmds, responses, cur, exec>>

\* the websocket was closed by stop(): the iteration ends (line 163)
RecvClosed ==
    /\ pc = "recv"
    /\ handle[_ws] = "closed"
    /\ PhaseExit
    /\ UNCHANGED <<_running, _session, stopRequested, delays, conn, pings, npings,
                   disp, exec>>

RecvSeveredUnnoticed ==
    /\ pc = "recv"
    /\ handle[_ws] = "open"
    /\ ping_task[_ws] = "done"
    /\ UNCHANGED vars

\* the transport of the websocket is lost (the heartbeat's send failed on it
\* although nothing on this side closed it, line 157): the pending receive
\* returns CLOSED, the websocket closes itself and the iteration ends (line
\* 163). It is counted among the receives while MaxFrames allows, and is not
\* held back by that bound
RecvSevered ==
    /\ pc = "recv"
    /\ handle[_ws] = "open"
    /\ ping_task[_ws] = "done"
    /\ nframes' = IF nframes < MaxFrames THEN nframes + 1 ELSE nframes
    /\ last' = [h |-> _ws, kind |-> "severed"]
    /\ handle' = [handle EXCEPT ![_ws] = "closed"]
    /\ PhaseExit
    /\ UNCHANGED <<_running, _session, stopRequested, delays, _ws, hsReply, pings,
                   npings, cmds, responses, cur, exec>>

\* receive_timeout=60 (line 121): no frame arrived within the timeout, the
\* receive raises TimeoutError out of the loop, caught at line 151; every
\* frame that arrives restarts the timeout. It is one of the receives that
\* MaxFrames bounds
RecvTimeout ==
    /\ Receive("timeout")
    /\ PhaseExit
    /\ UNCHANGED <<_running, _session, stopRequested, delays, conn, pings, npings,
                   cmds, responses, cur, exec>>

\* command.get('action', 'unknown') at line 182 raises AttributeError for a
\* command that is not a mapping
LogCommandRaises(command) == command.kind # "mapping"

\* an ha_command envelope (lines 178-189), up to the first suspension
RecvCommand(rid, cmd) ==
    LET i == Len(cmds) + 1
        plan == ExecutePlan(cmd)
        cs == Append(cmds, [h |-> _ws, rid |-> rid, cmd |-> cmd, prev |-> Prev,
                            st |-> "exec", result |-> NoResult, api |-> 0])
    IN  /\ Receive("ha_command")
        /\ IF LogCommandRaises(cmd) \/ plan.step = "raise"
           THEN /\ cmds' = [cs EXCEPT ![i].st = "raised"]
                /\ PhaseExit
                /\ UNCHANGED <<responses, cur>>
           ELSE IF plan.step = "return"
           THEN /\ SendResponse(cs, i, plan.result)
                /\ UNCHANGED cur
           ELSE /\ cmds' = [cs EXCEPT ![i].api = 1]
                /\ cur' = i
                /\ pc' = "exec"
                /\ UNCHANGED <<responses, ping_task, _connected, attempts, ends>>
        /\ UNCHANGED <<_running, _session, stopRequested, delays, conn, pings,
                       npings, exec>>

\* the local API answered (or the request failed): _execute_ha_command
\* returns and the reply is sent
ApiReturn(outcome) ==
    /\ pc = "exec"
    /\ SendResponse(cmds, cur, ApiResult(cmds[cur].cmd, outcome))
    /\ cur' = 0
    /\ UNCHANGED <<_running, _session, stopRequested, delays, conn, pings, npings,
                   nframes, last, exec>>

(* ---------------------------- the heartbeat ---------------------------- *)
\* asyncio.create_task(self._ping_loop()) (line 139): the heartbeat is a task
\* of its own, which takes its steps at every position p of the dispatch loop
HeartbeatAfterReply(p) == p # "exec"

HeartbeatRuns(p) == TRUE

\* one turn of _ping_loop (lines 155-160) up to its sleep
PingStep(t) ==
    /\ ping_task[t] = "ready"
    /\ HeartbeatRuns(pc)
    /\ npings < MaxPings
    /\ IF ~_connected
       THEN /\ ping_task' = [ping_task EXCEPT ![t] = "done"]
            /\ UNCHANGED <<pings, npings>>
       ELSE \E ok \in SendOutcomes(_ws) :
            IF ok
            THEN /\ pings' = pings \cup {[h |-> _ws, by |-> t]}
                 /\ npings' = npings + 1
                 /\ ping_task' = [ping_task EXCEPT ![t] = "sleeping"]
            ELSE /\ ping_task' = [ping_task EXCEPT ![t] = "done"]
                 /\ UNCHANGED <<pings, npings>>
    /\ UNCHANGED <<pc, _running, _connected, _session, stopRequested, sup, conn,
                   disp, exec>>

\* asyncio.sleep(30) is over (line 158)
PingWake(t) ==
    /\ ping_task[t] = "sleeping"
    /\ ping_task' = [ping_task EXCEPT ![t] = "ready"]
    /\ UNCHANGED <<pc, _running, _connected, _session, stopRequested, sup, conn,
                   pings, npings, disp, exec>>

(* ------------------------------- stop ---------------------------------- *)
\* self._ws.close() when `self._ws and not self._ws.closed` (lines 87-88)
CloseWs(hs, ws) ==
    IF ws # NoHandle /\ hs[ws] \in {"open", "dropped"}
    THEN [hs EXCEPT ![ws] = "closed"]
    ELSE hs

\* stop() called by another task while start is running (lines 85-88)
Stop ==
    /\ pc \notin {"init", "done", "stopped"}
    /\ ~stopRequested
    /\ stopRequested' = TRUE
    /\ _running' = FALSE
    /\ handle' = CloseWs(handle, _ws)
    /\ UNCHANGED <<pc, _connected, _session, sup, _ws, hsReply, beat, disp, exec>>

\* main, lines 292-296: KeyboardInterrupt leaves start wherever it is (through
\* the finally clause when the concurrent phase is running) and stop() is called
Interrupt ==
    /\ pc \notin {"init", "done", "stopped"}
    /\ ~stopRequested
    /\ stopRequested' = TRUE
    /\ _running' = FALSE
    /\ handle' = CloseWs(handle, _ws)
    /\ IF InPhase THEN Finally ELSE UNCHANGED <<ping_task, _connected>>
    /\ cmds' = IF pc = "exec" THEN [cmds EXCEPT ![cur].st = "abandoned"] ELSE cmds
    /\ cur' = 0
    /\ pc' = "stopped"
    /\ UNCHANGED <<_session, sup, _ws, hsReply, pings, npings, nframes, last,
                   responses, exec>>

Next ==
    \/ Start
    \/ ProbeOk
    \/ ProbeFail
    \/ ProbeSleepDone
    \/ DelayDone
    \/ Cleanup
    \/ ConnectOk
    \/ ConnectFail
    \/ \E type \in {"welcome", "other"} : HsReply(type)
    \/ HsMalformed
    \/ HsClosed
    \/ RecvMalformed
    \/ RecvNonDict
    \/ \E kind \in {"pong", "unknown", "binary"} : RecvIgnored(kind)
    \/ \E kind \in {"close", "error"} : RecvClose(kind)
    \/ RecvClosed
    \/ RecvTimeout
    \/ RecvSevered
    \/ \E rid \in RequestIds, cmd \in LoopCommands : RecvCommand(rid, cmd)
    \/ \E outcome \in ApiOutcomes : ApiReturn(outcome)
    \/ \E t \in Handles : PingStep(t)
    \/ \E t \in Handles : PingWake(t)
    \/ Stop
    \/ Interrupt

Spec == Init /\ [][Next]_vars

\* the commands of the specification with progress: one command that is
\* suspended in a request to the local API
LiveRequestIds == {"r1"}

LiveCommand == Cmd("mapping", "get_state", "absent", "absent")

NextLive ==
    \/ Start
    \/ ProbeOk
    \/ ProbeFail
    \/ ProbeSleepDone
    \/ DelayDone
    \/ Cleanup
    \/ ConnectOk
    \/ ConnectFail
    \/ \E type \in {"welcome", "other"} : HsReply(type)
    \/ HsMalformed
    \/ HsClosed
    \/ RecvMalformed
    \/ RecvNonDict
    \/ \E kind \in {"pong", "unknown", "binary"} : RecvIgnored(kind)
    \/ \E kind \in {"close", "error"} : RecvClose(kind)
    \/ RecvClosed
    \/ RecvTimeout
    \/ RecvSevered
    \/ \E rid \in LiveRequestIds : RecvCommand(rid, LiveCommand)
    \/ \E outcome \in ApiOutcomes : ApiReturn(outcome)
    \/ \E t \in Handles : PingStep(t)
    \/ \E t \in Handles : PingWake(t)
    \/ Stop
    \/ Interrupt

\* the same steps with the progress the event loop and the HTTP client
\* guarantee: a receive pending on a closed websocket or on a lost
\* transport returns, and a local-API request ends with its reply or with
\* the client's own timeout. Nothing is assumed of the peer
SpecLive ==
    /\ Init
    /\ [][NextLive]_vars
    /\ WF_vars(RecvClosed)
    /\ WF_vars(RecvSevered)
    /\ WF_vars(\E outcome \in ApiOutcomes : ApiReturn(outcome))

(* ------------------ _execute_ha_command on its own --------------------- *)
\* one call of _execute_ha_command(command) for every command value
InitExec ==
    /\ pc = "init"
    /\ _running = FALSE
    /\ _connected = FALSE
    /\ _ws = NoHandle
    /\ _session = "none"
    /\ handle = [h \in Handles |-> "none"]
    /\ hsReply = [h \in Handles |-> "none"]
    /\ ping_task = [h \in Handles |-> "none"]
    /\ nframes = 0
    /\ last = [h |-> NoHandle, kind |-> "none"]
    /\ cmds = <<>>
    /\ responses = <<>>
    /\ pings = {}
    /\ npings = 0
    /\ cur = 0
    /\ stopRequested = FALSE
    /\ attempts = 0
    /\ ends = 0
    /\ delays = 0
    /\ exec \in {[cmd |-> c, step |-> "called", result |-> NoResult, calls |-> 0] :
                    c \in Commands}

lifecycle == <<pc, _running, _connected, _session, stopRequested, sup, conn, beat, disp>>

\* lines 192-212: the call runs to its first suspension (a request to the
\* local API), to a return, or to an exception that leaves the function
ExecCall ==
    /\ exec.step = "called"
    /\ LET plan == ExecutePlan(exec.cmd)
       IN  exec' = [exec EXCEPT
                      !.step = IF plan.step = "raise" THEN "raised"
                               ELSE IF plan.step = "return" THEN "returned"
                               ELSE "api",
                      !.result = plan.result,
                      !.calls = IF plan.step = "api" THEN 1 ELSE 0]
    /\ UNCHANGED lifecycle

\* the local API answers, or the request fails
ExecApiReturn(outcome) ==
    /\ exec.step = "api"
    /\ exec' = [exec EXCEPT !.step = "returned",
                            !.result = ApiResult(exec.cmd, outcome)]
    /\ UNCHANGED lifecycle

NextExec ==
    \/ ExecCall
    \/ \E outcome \in ApiOutcomes : ExecApiReturn(outcome)

SpecExec == InitExec /\ [][NextExec]_vars

(* -------------------- _get_all_entities on its own --------------------- *)
\* entity ids are strings over these characters, up to MaxIdLen long; a
\* snapshot holds up to MaxEntities entities
MaxIdLen == 3
MaxEntities == 2

IdChars == {"a", "."}

Ids == UNION {[1..n -> IdChars] : n \in 0..MaxIdLen}

\* the entities of a state snapshot (GET /api/states): with or without an
\* entity_id, with or without a friendly_name among their attributes; the
\* state is copied as it is
SnapshotEntities ==
    {[hasId |-> TRUE, id |-> s, named |-> b] : s \in Ids, b \in BOOLEAN}
    \cup {[hasId |-> FALSE, id |-> <<>>, named |-> b] : b \in BOOLEAN}

Snapshots == UNION {[1..n -> SnapshotEntities] : n \in 0..MaxEntities}

FriendlyName == <<"F">>

\* `"." not in entity_id` (line 228), negated
HasDot(id) == \E k \in 1..Len(id) : id[k] = "."

RECURSIVE SplitFirst(_)
\* entity_id.split(".")[0]
SplitFirst(id) ==
    IF id = <<>> \/ Head(id) = "." THEN <<>>
    ELSE <<Head(id)>> \o SplitFirst(Tail(id))

RECURSIVE SplitLast(_)
SplitLast(id) ==
    IF id = <<>> THEN <<>>
    ELSE IF id[Len(id)] = "." THEN SubSeq(id, 1, Len(id) - 1)
    ELSE SplitLast(SubSeq(id, 1, Len(id) - 1))

\* line 230
DomainOfLastDot(entity_id) == SplitLast(entity_id)

DomainOf(entity_id) == SplitFirst(entity_id)

\* entity.get("entity_id", "") (line 227)
EntityId(entity) == IF entity.hasId THEN entity.id ELSE <<>>

\* the entry appended at lines 233-237
Entry(entity) ==
    [entity_id |-> EntityId(entity),
     name |-> IF entity.named THEN FriendlyName ELSE EntityId(entity)]

RECURSIVE GroupFrom(_, _, _)
\* the loop of lines 226-237, from entity i on, entities being the mapping
\* built so far
GroupFrom(states, i, entities) ==
    IF i > Len(states) THEN entities
    ELSE LET entity == states[i]
             entity_id == EntityId(entity)
             domain == DomainOf(entity_id)
             withKey == IF domain \in DOMAIN entities THEN entities
                        ELSE [k \in DOMAIN entities \cup {domain} |->
                                IF k = domain THEN <<>> ELSE entities[k]]
         IN  IF ~HasDot(entity_id)
             THEN GroupFrom(states, i + 1, entities)
             ELSE GroupFrom(states, i + 1,
                            [withKey EXCEPT ![domain] = Append(@, Entry(entity))])

\* _get_all_entities (lines 217-241) for a snapshot and an outcome of the request
GetAllEntities(states, outcome) ==
    IF outcome = "200"
    THEN [success |-> TRUE, entities |-> GroupFrom(states, 1, <<>>)]
    ELSE [success |-> FALSE, entities |-> <<>>]

\* one call of _get_all_entities for every snapshot
InitEntities ==
    /\ pc = "init"
    /\ _running = FALSE
    /\ _connected = FALSE
    /\ _ws = NoHandle
    /\ _session = "none"
    /\ handle = [h \in Handles |-> "none"]
    /\ hsReply = [h \in Handles |-> "none"]
    /\ ping_task = [h \in Handles |-> "none"]
    /\ nframes = 0
    /\ last = [h |-> NoHandle, kind |-> "none"]
    /\ cmds = <<>>
    /\ responses = <<>>
    /\ pings = {}
    /\ npings = 0
    /\ cur = 0
    /\ stopRequested = FALSE
    /\ attempts = 0
    /\ ends = 0
    /\ delays = 0
    /\ exec \in {[states |-> st, step |-> "called", outcome |-> "none",
                  success |-> FALSE, entities |-> <<>>] : st \in Snapshots}

EntitiesReturn(outcome) ==
    /\ exec.step = "called"
    /\ LET r == GetAllEntities(exec.states, outcome)
       IN  exec' = [exec EXCEPT !.step = "returned", !.outcome = outcome,
                                !.success = r.success, !.entities = r.entities]
    /\ UNCHANGED lifecycle

NextEntities == \E outcome \in ApiOutcomes : EntitiesReturn(outcome)

SpecEntities == InitEntities /\ [][NextEntities]_vars

(* ------------------------------ claims --------------------------------- *)
ResponsesTo(i) == {j \in 1..Len(responses) : responses[j].re = i}

Live == {h \in Handles : handle[h] = "open"}

Alive(t) == ping_task[t] \in {"ready", "sleeping"}

\* C1: every ha_command envelope the dispatch loop received gets exactly one
\* ha_response, on its connection and with its request_id: never more than
\* one, and one as soon as the handling of the command is over. A frame
\* counts as sent once it was handed to send_json, whether or not the
\* transport then took it.
C1_ExactlyOneResponse ==
    \A i \in 1..Len(cmds) :
        /\ Cardinality(ResponsesTo(i)) <= 1
        /\ \A j \in ResponsesTo(i) :
              responses[j].rid = cmds[i].rid /\ responses[j].h = cmds[i].h
        /\ cmds[i].st # "exec" => Cardinality(ResponsesTo(i)) = 1

\* C2: a call_service command whose domain is not in SAFE_DOMAINS (an absent
\* domain included) makes _execute_ha_command return success = false, and no
\* request to the local API is issued while it is executed.
C2_DisallowedDomainNoApi ==
    (exec.cmd.kind = "mapping" /\ exec.cmd.action = "call_service"
        /\ exec.cmd.domain \notin SAFE_DOMAINS)
    => /\ exec.calls = 0
       /\ exec.step \in {"called", "returned"}
       /\ exec.step = "returned" => exec.result = Err

C2_Witness ==
    /\ exec.step = "returned"
    /\ exec.cmd.action = "call_service"
    /\ exec.cmd.domain = "camera"
    /\ exec.cmd.data = "ok"

\* C3: at most one websocket is live (opened and not closed) at any time.
C3_AtMostOneLive == Cardinality(Live) <= 1

\* C4: after a handshake reply of a type other than "welcome" on a
\* connection, no heartbeat task exists for it, the dispatch loop received
\* nothing on it, no ping and no ha_response was sent on it, and while it is
\* the current handle _connected is false and the supervisor is not in the
\* concurrent phase.
C4_NoPhaseWithoutWelcome ==
    \A h \in Handles :
        hsReply[h] = "other" =>
            /\ ping_task[h] = "none"
            /\ \A p \in pings : p.h # h /\ p.by # h
            /\ \A j \in 1..Len(responses) : responses[j].h # h
            /\ \A i \in 1..Len(cmds) : cmds[i].h # h
            /\ last.h # h
            /\ _ws = h => (~_connected /\ ~InPhase)

C4_Witness ==
    /\ hsReply[1] = "other"
    /\ hsReply[2] = "welcome"
    /\ pc = "recv"

\* C5: a text frame that is not JSON, received in the concurrent phase,
\* leaves the dispatch loop waiting for the next frame on the same open
\* connection, with nothing sent, no command recorded and the heartbeat
\* untouched.
C5_MalformedFrameDropped ==
    [][(nframes' = nframes + 1 /\ last'.kind = "malformed")
        => /\ pc' = "recv"
           /\ handle' = handle
           /\ handle'[_ws'] = "open"
           /\ _ws' = _ws
           /\ _connected' = _connected
           /\ ping_task' = ping_task
           /\ responses' = responses
           /\ pings' = pings
           /\ cmds' = cmds
           /\ ends' = ends]_vars

\* an ha_command that followed a malformed frame on the same connection got
\* its ha_response
C5_Witness ==
    \E i \in 1..Len(cmds) :
        cmds[i].prev /\ cmds[i].st = "replied"
            /\ \E j \in ResponsesTo(i) : responses[j].ok

\* C6: each return of _connect while stop has not been requested is followed
\* by the reconnect delay and then by exactly one new connection attempt:
\* attempts, session ends and delays advance in step, a session end while
\* running leads to the delay, and the delay, when it is over while running,
\* leads to a connection attempt.
C6_Counters ==
    /\ InSession => (attempts = ends + 1 /\ delays = ends)
    /\ pc = "delay" => (attempts = ends /\ delays + 1 = ends /\ ends >= 1)
    /\ pc \in {"cleanup", "done"} => (attempts = ends /\ delays <= ends)

C6_ReconnectAfterDelay ==
    /\ []C6_Counters
    /\ [][(ends' = ends + 1 /\ _running) => pc' = "delay"]_vars
    /\ [][(pc = "delay" /\ delays' = delays + 1 /\ _running)
            => (pc' = "connecting" /\ attempts' = attempts + 1)]_vars

C6_Witness ==
    /\ pc = "connecting"
    /\ attempts = 2
    /\ ends = 1
    /\ delays = 1
    /\ _running

\* C7: once a stop has been handled and the supervisor has finished (start
\* returned after _cleanup, or start was interrupted and stop() ran), no
\* websocket is open.
C7_StopLeavesNothingOpen ==
    pc \in {"done", "stopped"} => Live = {}

\* C8: a heartbeat task is alive only while the concurrent phase of its own
\* session is running on its own handle, and every ping was sent on the
\* handle of the session whose task sent it.
C8_HeartbeatBoundToSession ==
    /\ \A t \in Handles :
          Alive(t) => (_ws = t /\ InPhase /\ hsReply[t] = "welcome")
    /\ \A p \in pings : p.h = p.by /\ hsReply[p.h] = "welcome"

\* the task of the first session has pinged and is over, a later session is
\* in its concurrent phase
C8_Witness ==
    /\ \E p \in pings : p.by = 1
    /\ ping_task[1] = "done"
    /\ _ws = 2
    /\ pc = "recv"
    /\ Alive(2)

\* C9: the execution of a command the dispatch loop received never raises:
\* it yields a result, and a result that is not a success is {success: false,
\* error}.
C9_ExecuteNeverRaises ==
    \A i \in 1..Len(cmds) :
        /\ cmds[i].st # "raised"
        /\ cmds[i].st \in {"replied", "sendfail"} =>
              (cmds[i].result.success \/ cmds[i].result = Err)

\* C10: the supervisor leaves its loop (to _cleanup, or by start raising)
\* only after a stop has been requested.
C10_ExitOnlyOnStop ==
    pc \in {"cleanup", "done", "stopped"} => stopRequested

\* two sessions have ended, one of them on an exception, and the supervisor
\* is still running
C10_Witness ==
    /\ ends >= 2
    /\ pc = "delay"
    /\ _running
    /\ ~stopRequested
    /\ \E i \in 1..Len(cmds) : cmds[i].st \in {"raised", "sendfail"}

\* d is the text of id before its first "."
IsPrefixBeforeFirstDot(d, id) ==
    /\ Len(d) < Len(id)
    /\ id[Len(d) + 1] = "."
    /\ \A k \in 1..Len(d) : d[k] = id[k] /\ d[k] # "."

\* the places (key, position) of the returned mapping holding an entry of id
EntriesOf(entities, id) ==
    {p \in UNION {{<<d, j>> : j \in 1..Len(entities[d])} : d \in DOMAIN entities} :
        entities[p[1]][p[2]].entity_id = id}

InputsOf(states, id) == {i \in 1..Len(states) : EntityId(states[i]) = id}

\* C11: for a snapshot returned with status 200, _get_all_entities returns
\* success = true and a mapping in which every entry lies under the text
\* before the first "." of its entity_id, every input entity whose id has a
\* "." appears exactly once, and the entities whose id has none (or that have
\* no id) are absent.
C11_GroupedByDomainPrefix ==
    (exec.step = "returned" /\ exec.outcome = "200") =>
        /\ exec.success
        /\ \A d \in DOMAIN exec.entities :
              \A j \in 1..Len(exec.entities[d]) :
                  IsPrefixBeforeFirstDot(d, exec.entities[d][j].entity_id)
        /\ \A id \in Ids :
              Cardinality(EntriesOf(exec.entities, id)) =
                  IF \E k \in 1..Len(id) : id[k] = "."
                  THEN Cardinality(InputsOf(exec.states, id))
                  ELSE 0

\* a snapshot with an id of two separators and an entity without an id
C11_Witness ==
    /\ exec.step = "returned"
    /\ exec.outcome = "200"
    /\ Len(exec.states) = 2
    /\ exec.states[1].id = <<"a", ".", ".">>
    /\ ~exec.states[2].hasId
    /\ DOMAIN exec.entities = {<<"a">>}

\* the frames that are not text frames
NonText == {"binary", "close", "error"}

\* C12: during the concurrent phase, receiving a non-text frame (binary,
\* error or close) ends the dispatch loop and with it the concurrent phase,
\* and no later frame is received on that connection.
C12_NonTextFrameEndsPhase ==
    [][(nframes' = nframes + 1) =>
          /\ last'.kind \in NonText => ~InPhase'
          /\ (last.kind \in NonText /\ last.h # NoHandle) => last'.h # last.h]_vars

\* C13: whenever the concurrent phase exits and _connect returns to the
\* supervisor, the heartbeat task of the session has been cancelled,
\* _connected is false and the connection handle of the session is closed.
C13_TeardownClosesHandle ==
    [][(InPhase /\ ends' = ends + 1) =>
          /\ ping_task'[_ws] = "done"
          /\ ~_connected'
          /\ handle'[_ws] = "closed"]_vars

\* the dispatch loop awaits the next frame on a websocket that is open:
\* it goes on for as long as the peer keeps sending frames
AwaitsPeer == pc = "recv" /\ handle[_ws] = "open"

\* C14: after a stop request made while start is running, the supervisor
\* leaves its loop and _cleanup closes the HTTP session whatever the peer
\* does: start is never left awaiting frames of an open websocket, where
\* only the peer (closing, or falling silent) can end the wait.
C14_StopIndependentOfPeer ==
    (stopRequested /\ pc # "stopped") => ~AwaitsPeer

\* C15: while the dispatch loop is suspended in the local-API call of an
\* ha_command, the heartbeat task can take its steps: a ping that is due can
\* be sent on the connection, and a sleeping heartbeat can wake, while the
\* command is still being executed.
C15_HeartbeatNotBlocked ==
    /\ (pc = "exec" /\ ping_task[_ws] = "ready" /\ handle[_ws] = "open"
            /\ npings < MaxPings) =>
          ENABLED (PingStep(_ws) /\ npings' = npings + 1 /\ pc' = "exec")
    /\ (pc = "exec" /\ ping_task[_ws] = "sleeping") =>
          ENABLED (PingWake(_ws) /\ pc' = "exec")

\* a command is being executed, its reply not yet sent, and a ping is due
C15_Witness ==
    /\ pc = "exec"
    /\ cmds[cur].st = "exec"
    /\ ResponsesTo(cur) = {}
    /\ ping_task[_ws] = "ready"
    /\ handle[_ws] = "open"
    /\ npings < MaxPings

\* the connection state of spec section 3 that a state of the code stands
\* for: Handshaking from the connect attempt to the handshake reply, Active
\* in the concurrent phase, Disconnected elsewhere. Closing is the finally
\* clause of lines 143-145, which has no suspension point: the code passes
\* through it within the step that leaves Active
ConnectionState ==
    IF pc \in {"connecting", "hs_recv"} THEN "Handshaking"
    ELSE IF InPhase THEN (IF _connected THEN "Active" ELSE "Closing")
    ELSE "Disconnected"

\* the websocket of the session is not left open
HandleShut == _ws # NoHandle => handle[_ws] # "open"

\* C16: every change of the connection state is one of Disconnected to
\* Handshaking, Handshaking to Active on a welcome reply only, Handshaking to
\* Disconnected, Active to Closing and Closing to Disconnected (the last two
\* possibly within one step); Disconnected is never entered with the handle
\* of the session still open.
C16_OnlyListedTransitions ==
    [][(ConnectionState' # ConnectionState) =>
          \/ /\ ConnectionState = "Disconnected"
             /\ ConnectionState' = "Handshaking"
          \/ /\ ConnectionState = "Handshaking"
             /\ ConnectionState' = "Active"
             /\ hsReply'[_ws'] = "welcome"
          \/ /\ ConnectionState = "Handshaking"
             /\ ConnectionState' = "Disconnected"
             /\ HandleShut'
          \/ /\ ConnectionState = "Active"
             /\ ConnectionState' \in {"Closing", "Disconnected"}
             /\ ConnectionState' = "Disconnected" => HandleShut'
          \/ /\ ConnectionState = "Closing"
             /\ ConnectionState' = "Disconnected"
             /\ HandleShut']_vars

\* the text frames of well-formed JSON that _handle_message matches to
\* nothing: a pong, and an object of an unexpected or missing type
FrameLocal == {"pong", "unknown"}

\* C17: receiving a pong frame, or a JSON object whose type is neither pong
\* nor ha_command, sends no frame (no reply, no ping), makes no local-API
\* call and leaves the dispatch loop and the session as they are.
C17_UnmatchedTypeIsFrameLocal ==
    [][(nframes' = nframes + 1 /\ last'.kind \in FrameLocal) =>
          /\ responses' = responses
          /\ pings' = pings
          /\ cmds' = cmds
          /\ pc' = "recv"
          /\ _connected'
          /\ ends' = ends
          /\ handle' = handle
          /\ ping_task' = ping_task]_vars

\* a frame of an unexpected type was received and the dispatch loop awaits
\* the next frame of the same session
C17_Witness ==
    /\ last = [h |-> _ws, kind |-> "unknown"]
    /\ pc = "recv"
    /\ _connected
    /\ handle[_ws] = "open"
    /\ ends = 0

\* the heartbeat task of the running session t is over: within the phase
\* _connected holds and nothing cancels the task, so its send has failed
SendFailed(t) == InPhase /\ _ws = t /\ ping_task[t] = "done"

\* C18: when a heartbeat send fails the heartbeat task ends without touching
\* the session (the dispatch loop stays where it is), it never sends a ping
\* again, and the concurrent phase of that session eventually ends.
C18_HeartbeatFailureEndsPhase ==
    /\ [][\A t \in Handles :
            (ping_task[t] = "ready" /\ ping_task'[t] = "done"
                /\ _connected /\ _connected') =>
                (pc' = pc /\ ends' = ends /\ pings' = pings /\ InPhase')]_vars
    /\ [][\A t \in Handles :
            ping_task[t] = "done" =>
                /\ ping_task'[t] = "done"
                /\ {p \in pings' \ pings : p.by = t} = {}]_vars
    /\ \A t \in Handles : SendFailed(t) ~> ~(InPhase /\ _ws = t)

\* the heartbeat's send failed on a websocket that nothing on this side has
\* closed, and the dispatch loop awaits the next frame
C18_Witness ==
    /\ pc = "recv"
    /\ SendFailed(_ws)
    /\ handle[_ws] = "open"
    /\ _connected

\* the commands that are being executed
Executing == {i \in 1..Len(cmds) : cmds[i].st = "exec"}

\* C19: at most one ha_command is being executed at a time, the dispatch
\* loop receives no frame while one is, and the ha_response frames are
\* handed to the websocket in the order in which their commands arrived.
C19_OneCommandAtATime ==
    /\ []((Cardinality(Executing) <= 1)
          /\ (Executing # {} => (pc = "exec" /\ Executing = {cur}))
          /\ (\A j, k \in 1..Len(responses) :
                 j < k => responses[j].re < responses[k].re))
    /\ [][nframes' # nframes => Executing = {}]_vars

\* two commands of one session were answered, one after the other
C19_Witness ==
    /\ Len(responses) = 2
    /\ responses[1].ok /\ responses[2].ok
    /\ responses[1].h = responses[2].h
    /\ responses[1].re = 1 /\ responses[2].re = 2
    /\ cmds[1].api = 1

\* C20: once stop has been requested while start is running, the
\* supervisor begins no connection attempt and starts no reconnect delay.
C20_NoAttemptAfterStop ==
    [][(stopRequested /\ ~_running) =>
          /\ attempts' = attempts
          /\ pc' = "connecting" => pc = "connecting"
          /\ pc' = "delay" => pc = "delay"]_vars

\* stop arrived during a session, the session returned, and the supervisor
\* is at _cleanup although the bound on the attempts would allow another one
C20_Witness ==
    /\ stopRequested
    /\ pc = "cleanup"
    /\ ends = 1
    /\ attempts = 1
    /\ attempts < MaxConn
    /\ delays = 0

====
